---- MODULE Spec2Model ----
(***************************************************************************)
(* Model of the csrest client (package csclient): the single-attempt       *)
(* transport executor (Client.doRequestOnce), the retry coordinator        *)
(* (Client.doRequest) and the completion poller                            *)
(* (Client.WaitForTaskCompletion).                                         *)
(*                                                                         *)
(* Time is discrete (one unit = one second).  A goroutine step that does   *)
(* not block is taken before time advances; time advances only while the   *)
(* caller is blocked in a select or has a network attempt in flight.       *)
(* The clock is read relative to the start of the modelled call.           *)
(*                                                                         *)
(* Spec      : one caller goroutine, configuration only between calls.     *)
(* SpecOnce  : doRequestOnce applied to every enumerated attempt input.    *)
(***************************************************************************)
EXTENDS Integers, Sequences, FiniteSets, TLC

\* ------------------------------------------------------------------ bounds
MaxNegRetries == 2    \* SetRetryPolicy is handed maxRetries down to -MaxNegRetries
MaxRetriesBound == 1  \* largest maxRetries handed to SetRetryPolicy
MaxDelay == 1         \* largest retryDelay handed to SetRetryPolicy
MaxLatency == 1       \* longest time one network attempt stays in flight
MaxTimeout == 4       \* largest timeout handed to WaitForTaskCompletion
MaxNegTimeout == 1    \* WaitForTaskCompletion is handed timeouts down to -MaxNegTimeout
MaxTime == 7          \* the clock of Spec stops here
MaxDone == 2          \* latest fetch at which the task may turn terminal
MinStatus == 100      \* smallest HTTP status enumerated in SpecOnce
MaxStatus == 599      \* largest HTTP status enumerated in SpecOnce

\* ------------------------------------------------------- program constants
DefaultMaxRetries == 3
DefaultRetryDelay == 2
TickInterval == 2

TaskStatusNotFound == "NOT_FOUND"
TaskStatusInProgress == "IN_PROGRESS"
TaskStatusCompleted == "COMPLETED"
TaskStatusFailed == "FAILED"
TaskStatusOutputReceived == "OUTPUT_RECEIVED"

\* The zero value of TaskStatus (a result that was never decoded into) and
\* a status string the server may send that is none of the constants.
TaskStatusZero == ""
TaskStatusOther == "UNKNOWN"

TaskStatuses ==
  {TaskStatusNotFound, TaskStatusInProgress, TaskStatusCompleted,
   TaskStatusFailed, TaskStatusOutputReceived, TaskStatusOther}

\* ------------------------------------------------------------------ errors
Nil == [kind |-> "nil"]

APIError(status, message, retryable) ==
  [kind |-> "APIError", StatusCode |-> status, Message |-> message,
   Retryable |-> retryable]

\* ctx.Err() of a context whose state is s ("Canceled", "DeadlineExceeded").
CtxError(s) == [kind |-> "ctx", err |-> s]

\* fmt.Errorf("request failed after %d attempts: %w", n, e)
ExhaustedError(n, e) == [kind |-> "exhausted", count |-> n, wrapped |-> e]

\* fmt.Errorf("failed to get task: %w", e)
GetTaskError(e) == [kind |-> "getTask", wrapped |-> e]

\* fmt.Errorf("timeout waiting for task completion")
TimeoutError == [kind |-> "timeout"]

\* ------------------------------------------------- one attempt: its inputs
\* What the environment decides about one attempt: whether the body
\* marshals, whether the request can be built, whether the transport
\* delivers a response, its status, whether the body can be read, what the
\* body is ("empty", "json": decodable, "garbage": not decodable) and, for
\* a decodable task body, the task status it carries.  Fields that the
\* attempt never gets to look at hold a fixed filler.
AttemptInput(marshal, newreq, send, status, read, body, task) ==
  [marshal |-> marshal, newreq |-> newreq, send |-> send, status |-> status,
   read |-> read, body |-> body, task |-> task]

MarshalFailure == AttemptInput(FALSE, FALSE, FALSE, 0, FALSE, "empty", TaskStatusZero)
NewRequestFailure == AttemptInput(TRUE, FALSE, FALSE, 0, FALSE, "empty", TaskStatusZero)
TransportFailure == AttemptInput(TRUE, TRUE, FALSE, 0, FALSE, "empty", TaskStatusZero)
ReadFailure(s) == AttemptInput(TRUE, TRUE, TRUE, s, FALSE, "empty", TaskStatusZero)
Response(s, b, t) == AttemptInput(TRUE, TRUE, TRUE, s, TRUE, b, t)

AttemptInputs(statuses, tasks) ==
  {MarshalFailure, NewRequestFailure, TransportFailure}
    \cup {ReadFailure(s) : s \in statuses}
    \cup {Response(s, b, TaskStatusZero) : s \in statuses, b \in {"empty", "garbage"}}
    \cup {Response(s, "json", t) : s \in statuses, t \in tasks}

\* ----------------------------------------------- Client.doRequestOnce
IsSuccessStatus(status) == status >= 200 /\ status < 300

\* Variant: the rate-limit status is forgotten.
Retryable_No429(status) == status >= 500

Retryable(status) == status >= 500 \/ status = 429

\* if result != nil && len(respBody) > 0: the body of a 2xx answer is
\* handed to json.Unmarshal.
\* Variant: an empty body is handed to it as well.
wantsDecode_EmptyToo(resultNil, body) == ~resultNil

wantsDecode(resultNil, body) == ~resultNil /\ body # "empty"

\* Variant: a body that cannot be read is classified by its status, like an
\* error answer.
doRequestOnce_ReadByStatus(in, resultNil) ==
  IF ~in.marshal THEN APIError(0, "failed to marshal request", FALSE)
  ELSE IF ~in.newreq THEN APIError(0, "failed to create request", FALSE)
  ELSE IF ~in.send THEN APIError(0, "request failed", TRUE)
  ELSE IF ~in.read THEN APIError(in.status, "failed to read response", Retryable(in.status))
  ELSE IF ~IsSuccessStatus(in.status)
    THEN APIError(in.status,
                  IF in.body = "empty" THEN "HTTP status text" ELSE "response body",
                  Retryable(in.status))
  ELSE IF wantsDecode(resultNil, in.body) /\ in.body # "json"
    THEN APIError(in.status, "failed to unmarshal response", FALSE)
  ELSE Nil

\* The error returned by one attempt on input in; resultNil says that the
\* caller passed no result target.
doRequestOnce(in, resultNil) ==
  IF ~in.marshal THEN APIError(0, "failed to marshal request", FALSE)
  ELSE IF ~in.newreq THEN APIError(0, "failed to create request", FALSE)
  ELSE IF ~in.send THEN APIError(0, "request failed", TRUE)
  ELSE IF ~in.read THEN APIError(in.status, "failed to read response", TRUE)
  ELSE IF ~IsSuccessStatus(in.status)
    THEN APIError(in.status,
                  IF in.body = "empty" THEN "HTTP status text" ELSE "response body",
                  Retryable(in.status))
  ELSE IF wantsDecode(resultNil, in.body) /\ in.body # "json"
    THEN APIError(in.status, "failed to unmarshal response", FALSE)
  ELSE Nil

\* What the result target may hold after the attempt: it is written only by
\* json.Unmarshal, which is reached only with a 2xx answer whose body was
\* read; a body that does not decode may leave it untouched or half written.
ResultAfter(in, resultNil) ==
  IF in.marshal /\ in.newreq /\ in.send /\ in.read /\ IsSuccessStatus(in.status)
       /\ wantsDecode(resultNil, in.body)
    THEN IF in.body = "json" THEN {"decoded"} ELSE {"unmodified", "partial"}
    ELSE {"unmodified"}

\* The task status held by the result target after a successful attempt
\* into a fresh TaskDetailDto: decoded from the body, or left at the zero
\* value when the body is empty.
DecodedTaskStatus(in) == IF in.body = "json" THEN in.task ELSE TaskStatusZero

\* ----------------------------------------------- isNonRetryableError
\* Variant: the negation is dropped.
isNonRetryableError_NotNegated(e) ==
  IF e.kind = "APIError" THEN e.Retryable ELSE FALSE

isNonRetryableError(err) ==
  IF err.kind = "APIError" THEN ~err.Retryable ELSE FALSE

\* ------------------------------------------------------------------- state
VARIABLES
  maxRetries,   \* Client.maxRetries
  retryDelay,   \* Client.retryDelay
  token,        \* Client.token
  baseURL,      \* Client.baseURL
  lastLogin,    \* access token of the most recent Login that succeeded
  race,         \* a Client field was written while a call in progress reads it
  ctxErr,       \* state of the caller's context: "nil", "Canceled", "DeadlineExceeded"
  now,          \* time elapsed since the call started
  op,           \* the call in progress: "none", "request", "wait", "login"
  pc,           \* position in doRequest: "idle", "loop", "select", "parked", "once", "ret"
  attempt,      \* doRequest: the loop variable
  lastErr,      \* doRequest: lastErr
  err,          \* doRequest: err of the most recent doRequestOnce
  errCtx,       \* state of the context when that doRequestOnce returned
  timerAt,      \* when the time.After timer of the retry delay fires
  wake,         \* case that woke the parked retry select: "none", "ctx", "timer"
  sentAt,       \* when the attempt in flight was started
  sentCtx,      \* state of the context when it was started
  plan,         \* what the server will do to this doRequest call
  attempts,     \* number of doRequestOnce calls made by this doRequest call
  result,       \* task status held by the result target of GetTask
  dret,         \* the error doRequest returned
  requireAuth,  \* doRequest: the requireAuth argument
  sentAuth,     \* bearer token in the Authorization header of the latest attempt
  auth,         \* Login: auth.AccessToken, the decoded result target
  startPolicy,  \* <<maxRetries, retryDelay>> when this doRequest call was entered
  selectAt,     \* when the retry select was entered last
  delays,       \* number of retry delays this call has waited out
  waited,       \* time this call has spent in retry delays it waited out
  cancelInfo,   \* where the caller was when the context was cancelled
  wpc,          \* position in WaitForTaskCompletion: "none", "select", "parked", "fetch", "ret"
  timeout,      \* WaitForTaskCompletion: the timeout argument
  deadline,     \* WaitForTaskCompletion: deadline
  nextTick,     \* when the ticker fires next
  tickBuf,      \* a tick is waiting in ticker.C; tickAt is when it was sent
  tickAt,       \* when the tick being handled (or waiting) was sent
  wwake,        \* case that woke the parked poll select: "none", "ctx", "tick"
  doneAt,       \* the first fetch that finds the task terminal (0: none does)
  fetches,      \* number of GetTask calls made by this wait
  task,         \* WaitForTaskCompletion: task, what the latest GetTask handed out
  ferr,         \* WaitForTaskCompletion: err, the error of the latest GetTask
  ticks,        \* number of ticks this wait has handled
  lastTick,     \* when the most recent tick was handled
  late,         \* some tick was handled later than it was sent
  wret,         \* what WaitForTaskCompletion returned: [task, err]
  onceIn,       \* SpecOnce: the attempt input and result flag under test
  onceErr,      \* SpecOnce: what doRequestOnce returned for it
  onceResult    \* SpecOnce: what the result target holds afterwards

clientVars == <<maxRetries, retryDelay, token, baseURL, lastLogin, race>>
reqVars == <<pc, attempt, lastErr, err, errCtx, timerAt, wake, sentAt, sentCtx,
             plan, attempts, result, dret, requireAuth, sentAuth, auth,
             startPolicy, selectAt, delays, waited>>
waitVars == <<wpc, timeout, deadline, nextTick, tickBuf, tickAt, wwake, doneAt,
              fetches, task, ferr, ticks, lastTick, late, wret>>
onceVars == <<onceIn, onceErr, onceResult>>
vars == <<clientVars, ctxErr, now, op, reqVars, cancelInfo, waitVars, onceVars>>

\* What the network does to an attempt in Spec once the request was built:
\* the transport fails, the body cannot be read, the server answers with an
\* error status, or it answers 200 with an empty, an undecodable or a
\* decodable body (carrying one of the given task statuses).
ServerInputs(tasks) ==
  {TransportFailure, ReadFailure(200), Response(404, "garbage", TaskStatusZero),
   Response(429, "empty", TaskStatusZero), Response(500, "garbage", TaskStatusZero),
   Response(200, "garbage", TaskStatusZero)}
    \cup (IF TaskStatusZero \in tasks THEN {Response(200, "empty", TaskStatusZero)} ELSE {})
    \cup {Response(200, "json", t) : t \in tasks \cap TaskStatuses}

\* Access tokens the server hands out; a decoded AuthDto may also hold none.
Tokens == {"t1", "t2"}
NoToken == ""
NeverLoggedIn == "never"
NoHeader == "none"

\* A 200 answer to Login whose body decodes into an AuthDto.
LoginResponse == Response(200, "json", TaskStatusZero)

\* auth.AccessToken after a successful attempt of Login: what the body
\* held, or the zero value when nothing was decoded or the field was absent.
DecodedAccessTokens(in) ==
  IF in.body = "json" THEN Tokens \cup {NoToken} ELSE {NoToken}

\* The Authorization header doRequestOnce puts on the request it built.
\* Variant: the token is attached whatever requireAuth says.
authHeader_IgnoreFlag(reqAuth, tok) == IF tok # "" THEN tok ELSE NoHeader

authHeader(reqAuth, tok) == IF reqAuth /\ tok # "" THEN tok ELSE NoHeader

NoPlan == [pre |-> "ok", fails |-> 0, then |-> "ok"]
NoPolicy == <<0, 0>>
NoCancel == [where |-> "none", at |-> 0, attempts |-> 0]
NoTask == [kind |-> "nil"]
Snapshot(status, k) == [kind |-> "task", TaskStatus |-> status, fetch |-> k]
NoInput == [in |-> TransportFailure, resultNil |-> FALSE]
Pending == [kind |-> "pending"]

Max(a, b) == IF a >= b THEN a ELSE b

\* ------------------------------------------------------------ NewClient
Init ==
  /\ maxRetries = DefaultMaxRetries
  /\ retryDelay = DefaultRetryDelay
  /\ token = NoToken /\ baseURL = "baseURL" /\ lastLogin = NeverLoggedIn
  /\ race = FALSE
  /\ ctxErr = "nil"
  /\ now = 0
  /\ op = "none"
  /\ pc = "idle" /\ attempt = 0 /\ lastErr = Nil /\ err = Nil /\ errCtx = "nil"
  /\ timerAt = 0 /\ wake = "none" /\ sentAt = 0 /\ sentCtx = "nil" /\ plan = NoPlan
  /\ attempts = 0 /\ result = TaskStatusZero /\ dret = Nil
  /\ requireAuth = FALSE /\ sentAuth = NoHeader /\ auth = NoToken
  /\ startPolicy = NoPolicy /\ selectAt = 0 /\ delays = 0 /\ waited = 0
  /\ cancelInfo = NoCancel
  /\ wpc = "none" /\ timeout = 0 /\ deadline = 0 /\ nextTick = 0
  /\ tickBuf = FALSE /\ tickAt = 0 /\ wwake = "none" /\ doneAt = 0
  /\ fetches = 0 /\ task = NoTask /\ ferr = Nil /\ ticks = 0 /\ lastTick = 0 /\ late = FALSE
  /\ wret = [task |-> NoTask, err |-> Nil]
  /\ onceIn = NoInput /\ onceErr = Nil /\ onceResult = "unmodified"

\* ------------------------------------------------- Client.SetRetryPolicy
SetRetryPolicy ==
  /\ op = "none"
  /\ \E m \in (-MaxNegRetries)..MaxRetriesBound, d \in 0..MaxDelay :
       /\ <<m, d>> # <<maxRetries, retryDelay>>
       /\ maxRetries' = m
       /\ retryDelay' = d
  /\ UNCHANGED <<token, baseURL, lastLogin, race, ctxErr, now, op, reqVars, cancelInfo, waitVars, onceVars>>

\* ------------------------------------------------------ the environment
\* How an error counts for the retry loop.
Class(e) ==
  IF e = Nil THEN "ok"
  ELSE IF e.kind = "APIError" /\ e.Retryable THEN "retry"
  ELSE "fatal"

\* The plans the server may follow for one doRequest call under policy m:
\* pre says whether the request gets past marshalling and construction
\* (a property of the call, the same on every attempt); otherwise the first
\* `fails` attempts fail with a retryable error and the next one ends as
\* `then` ("ok" or "fatal").  bodyNil: the call sends no body.
Plans(m, bodyNil) ==
  IF m < 0 THEN {NoPlan}
  ELSE {[pre |-> p, fails |-> 0, then |-> "fatal"] :
          p \in (IF bodyNil THEN {"newreq"} ELSE {"marshal", "newreq"})}
       \cup {[pre |-> "ok", fails |-> f, then |-> t] :
               f \in 0..m, t \in {"ok", "fatal"}}
       \cup {[pre |-> "ok", fails |-> m + 1, then |-> "ok"]}

TerminalStatuses ==
  {TaskStatusCompleted, TaskStatusOutputReceived, TaskStatusFailed}

\* The task statuses a successful fetch number k may decode.
FetchStatuses(k) ==
  IF doneAt # 0 /\ k >= doneAt THEN TerminalStatuses
  ELSE (TaskStatuses \ TerminalStatuses) \cup {TaskStatusZero}

\* The inputs the attempt in flight may meet.  The transport refuses to
\* send on a context that is already done; a context that is cancelled
\* while the attempt is in flight may make the transport fail whatever the
\* server would have answered.
PossibleInputs ==
  IF plan.pre = "marshal" THEN {MarshalFailure}
  ELSE IF plan.pre = "newreq" THEN {NewRequestFailure}
  ELSE IF sentCtx # "nil" THEN {TransportFailure}
  ELSE LET wanted == IF attempts <= plan.fails THEN "retry" ELSE plan.then
           tasks == IF op = "wait" THEN FetchStatuses(fetches) ELSE {TaskStatusZero}
           answers == ServerInputs(tasks)
                        \cup (IF op = "login" THEN {LoginResponse} ELSE {})
       IN {i \in answers : Class(doRequestOnce(i, FALSE)) = wanted}
            \cup (IF ctxErr # "nil" THEN {TransportFailure} ELSE {})

\* ------------------------------------------------------ Client.doRequest
\* for attempt := 0; attempt <= c.maxRetries; attempt++
\* Variant: one attempt short (attempt < c.maxRetries).
LoopCond_Strict(a, m) == a < m

\* Variant: one attempt too many (attempt <= c.maxRetries + 1).
LoopCond_OneMore(a, m) == a <= m + 1

LoopCond(a, m) == a <= m

\* if attempt > 0: every attempt but the first is preceded by the delay.
\* Variant: the first attempt is delayed as well.
needsDelay_Always(a) == TRUE

needsDelay(a) == a > 0

\* The cases of the select of the retry delay that can be taken at once.
retrySelect(ctxDone, timerFired) ==
  (IF ctxDone THEN {"ctx"} ELSE {}) \cup (IF timerFired THEN {"timer"} ELSE {})

\* The case a caller parked in the retry select is woken with when the
\* context is cancelled.
\* Variant: the delay is slept through (no ctx.Done() case).
retrySelectOnCancel_Sleep == "timer"

retrySelectOnCancel == "ctx"

\* What the loop body decides once doRequestOnce has returned e while the
\* context is in state c: return a value, or go round the loop again.
\* Variant: the context is not looked at after a failed attempt.
afterAttempt_NoCtxCheck(e, c) ==
  IF e = Nil THEN [return |-> TRUE, value |-> Nil]
  ELSE IF isNonRetryableError(e) THEN [return |-> TRUE, value |-> e]
  ELSE [return |-> FALSE, value |-> Nil]

\* Variant: on a cancelled context the failed attempt's own error is returned.
afterAttempt_BareOnCancel(e, c) ==
  IF e = Nil THEN [return |-> TRUE, value |-> Nil]
  ELSE IF isNonRetryableError(e) THEN [return |-> TRUE, value |-> e]
  ELSE IF c # "nil" THEN [return |-> TRUE, value |-> e]
  ELSE [return |-> FALSE, value |-> Nil]

afterAttempt(e, c) ==
  IF e = Nil THEN [return |-> TRUE, value |-> Nil]
  ELSE IF isNonRetryableError(e) THEN [return |-> TRUE, value |-> e]
  ELSE IF c # "nil" THEN [return |-> TRUE, value |-> CtxError(c)]
  ELSE [return |-> FALSE, value |-> Nil]

\* doRequest is entered (by an API method of the given body kind, with the
\* given requireAuth flag).
EnterDoRequest(bodyNil, reqAuth) ==
  /\ pc' = "loop"
  /\ attempt' = 0 /\ lastErr' = Nil /\ err' = Nil /\ errCtx' = "nil"
  /\ timerAt' = 0 /\ wake' = "none" /\ sentAt' = 0 /\ sentCtx' = "nil"
  /\ attempts' = 0 /\ result' = TaskStatusZero /\ dret' = Nil
  /\ requireAuth' = reqAuth /\ sentAuth' = NoHeader /\ auth' = NoToken
  /\ startPolicy' = <<maxRetries, retryDelay>>
  /\ selectAt' = 0 /\ delays' = 0 /\ waited' = 0
  /\ plan' \in Plans(maxRetries, bodyNil)

\* c.doRequestOnce(...) is called, straight away or after the retry delay
\* that began at `from` has been waited out.
StartAttempt(afterDelay, from) ==
  /\ pc' = "once"
  /\ delays' = IF afterDelay THEN delays + 1 ELSE delays
  /\ waited' = IF afterDelay THEN waited + (now - from) ELSE waited
  /\ sentAt' = now
  /\ sentCtx' = ctxErr
  /\ attempts' = attempts + 1
  /\ wake' = "none"
  /\ sentAuth' = IF plan.pre = "ok" THEN authHeader(requireAuth, token) ELSE NoHeader
  /\ UNCHANGED <<attempt, lastErr, err, errCtx, plan, result, dret, requireAuth,
                 auth, startPolicy>>

ReturnFromDoRequest(e) ==
  /\ pc' = "ret"
  /\ dret' = e
  /\ wake' = "none"
  /\ UNCHANGED <<attempt, lastErr, err, errCtx, sentAt, sentCtx, plan, attempts,
                 result, requireAuth, sentAuth, auth, startPolicy, delays, waited>>

\* What a read of c.maxRetries or c.retryDelay inside doRequest may yield.
\* The fields are read without synchronisation: once another goroutine has
\* written them during the call, a read yields the value written or the one
\* from before the write.
ReadMaxRetries == {maxRetries, startPolicy[1]}
ReadRetryDelay == {retryDelay, startPolicy[2]}

\* The loop head: the loop condition and, before every attempt after the
\* first, the select on ctx.Done() and time.After(c.retryDelay); after the
\* loop, the exhaustion error with c.maxRetries+1.
DoRequestLoop ==
  /\ pc = "loop"
  /\ \E m \in ReadMaxRetries, d \in ReadRetryDelay, n \in ReadMaxRetries :
     IF LoopCond(attempt, m)
       THEN IF needsDelay(attempt)
              THEN /\ timerAt' = now + Max(d, 0)
                   /\ selectAt' = now
                   /\ LET ready == retrySelect(ctxErr # "nil", now >= timerAt')
                      IN IF ready = {}
                           THEN /\ pc' = "parked"
                                /\ wake' = "none"
                                /\ UNCHANGED <<attempt, lastErr, err, errCtx, sentAt,
                                               sentCtx, plan, attempts, result,
                                               dret, requireAuth, sentAuth, auth,
                                               startPolicy, delays, waited>>
                           ELSE \E c \in ready :
                                  IF c = "ctx"
                                    THEN ReturnFromDoRequest(CtxError(ctxErr))
                                    ELSE StartAttempt(TRUE, now)
              ELSE StartAttempt(FALSE, now) /\ UNCHANGED <<timerAt, selectAt>>
       ELSE ReturnFromDoRequest(ExhaustedError(n + 1, lastErr))
            /\ UNCHANGED <<timerAt, selectAt>>
  /\ UNCHANGED <<clientVars, ctxErr, now, op, cancelInfo, waitVars, onceVars>>

\* The caller parked in the retry select runs again.
DoRequestWake ==
  /\ pc = "parked"
  /\ wake # "none"
  /\ IF wake = "ctx"
       THEN ReturnFromDoRequest(CtxError(ctxErr))
       ELSE StartAttempt(TRUE, selectAt)
  /\ UNCHANGED <<clientVars, ctxErr, now, op, timerAt, selectAt, cancelInfo, waitVars,
                 onceVars>>

\* doRequestOnce returns and the rest of the loop body runs.
AttemptReturn ==
  /\ pc = "once"
  /\ \E in \in PossibleInputs :
       LET e == doRequestOnce(in, FALSE)
           d == afterAttempt(e, ctxErr)
       IN
         /\ auth' \in (IF e = Nil /\ op = "login" THEN DecodedAccessTokens(in) ELSE {auth})
         /\ err' = e
         /\ errCtx' = ctxErr
         /\ lastErr' = IF e = Nil THEN lastErr ELSE e
         /\ result' = IF e = Nil /\ op = "wait" THEN DecodedTaskStatus(in) ELSE result
         /\ IF d.return
              THEN pc' = "ret" /\ dret' = d.value /\ UNCHANGED attempt
              ELSE pc' = "loop" /\ attempt' = attempt + 1 /\ UNCHANGED dret
  /\ UNCHANGED <<clientVars, ctxErr, now, op, timerAt, wake, sentAt, sentCtx, plan,
                 attempts, requireAuth, sentAuth, startPolicy, selectAt, delays,
                 waited, cancelInfo, waitVars, onceVars>>

\* ------------------------------------------ an API method other than GetTask
\* A caller invokes a request method (ListBeacons, ExecuteShell, ...), which
\* goes straight into doRequest; the context it hands over may already be
\* done.
CallRequest ==
  /\ op = "none"
  /\ op' = "request"
  /\ now' = 0
  /\ \E c \in {"nil", "Canceled", "DeadlineExceeded"} :
       /\ ctxErr' = c
       /\ cancelInfo' = IF c = "nil" THEN NoCancel
                        ELSE [where |-> "before", at |-> 0, attempts |-> 0]
  /\ \E bodyNil \in BOOLEAN : EnterDoRequest(bodyNil, TRUE)
  /\ UNCHANGED <<clientVars, waitVars, onceVars>>

\* The request method has returned to its caller.
FinishRequest ==
  /\ op = "request"
  /\ pc = "ret"
  /\ op' = "none" /\ ctxErr' = "nil" /\ now' = 0
  /\ pc' = "idle" /\ attempt' = 0 /\ lastErr' = Nil /\ err' = Nil /\ errCtx' = "nil"
  /\ timerAt' = 0 /\ wake' = "none" /\ sentAt' = 0 /\ sentCtx' = "nil" /\ plan' = NoPlan
  /\ attempts' = 0 /\ result' = TaskStatusZero /\ dret' = Nil
  /\ requireAuth' = FALSE /\ sentAuth' = NoHeader /\ auth' = NoToken
  /\ startPolicy' = NoPolicy /\ selectAt' = 0 /\ delays' = 0 /\ waited' = 0
  /\ cancelInfo' = NoCancel
  /\ UNCHANGED <<clientVars, waitVars, onceVars>>

\* ------------------------------------------------- the caller's context
\* The context is cancelled, or its deadline passes, while the call runs.
\* A caller parked in a select is woken with the ctx.Done() case.
Cancel ==
  /\ op # "none"
  /\ ctxErr = "nil"
  /\ ~(op \in {"request", "login"} /\ pc = "ret")
  /\ ~(op = "wait" /\ wpc = "ret")
  /\ ctxErr' \in {"Canceled", "DeadlineExceeded"}
  /\ cancelInfo' =
       [where |-> IF pc = "parked" /\ wake = "none" THEN "delay"
                  ELSE IF wpc = "parked" /\ wwake = "none" THEN "tickwait"
                  ELSE "other",
        at |-> now, attempts |-> attempts]
  /\ wake' = IF pc = "parked" /\ wake = "none" THEN retrySelectOnCancel ELSE wake
  /\ wwake' = IF wpc = "parked" /\ wwake = "none" THEN "ctx" ELSE wwake
  /\ UNCHANGED <<clientVars, now, op, pc, attempt, lastErr, err, errCtx, timerAt,
                 sentAt, sentCtx, plan, attempts, result, dret, requireAuth, sentAuth,
                 auth, startPolicy, selectAt, delays, waited, wpc, timeout, deadline, nextTick, tickBuf, tickAt, doneAt,
                 fetches, task, ferr, ticks, lastTick, late, wret, onceVars>>

\* ------------------------------------------------------------- the clock
\* One time unit passes while the caller is blocked.  A retry timer that
\* comes due wakes the caller parked on it; a ticker that comes due hands
\* its tick to the parked poller, or leaves it in the channel buffer of
\* size one (a tick that finds the buffer full is dropped).
Blocked ==
  \/ pc = "parked" /\ wake = "none"
  \/ pc = "once" /\ now - sentAt < MaxLatency
  \/ wpc = "parked" /\ wwake = "none"

PassTime ==
  /\ Blocked
  /\ now' = now + 1
  /\ wake' = IF pc = "parked" /\ wake = "none" /\ now' >= timerAt
               THEN "timer" ELSE wake
  /\ IF op = "wait" /\ now' = nextTick
       THEN /\ nextTick' = nextTick + TickInterval
            /\ IF wpc = "parked" /\ wwake = "none"
                 THEN wwake' = "tick" /\ tickAt' = now' /\ UNCHANGED tickBuf
                 ELSE /\ tickBuf' = TRUE
                      /\ tickAt' = IF tickBuf THEN tickAt ELSE now'
                      /\ UNCHANGED wwake
       ELSE UNCHANGED <<nextTick, tickBuf, tickAt, wwake>>
  /\ UNCHANGED <<clientVars, ctxErr, op, pc, attempt, lastErr, err, errCtx, timerAt,
                 sentAt, sentCtx, plan, attempts, result, dret, requireAuth, sentAuth,
                 auth, startPolicy, selectAt, delays, waited, cancelInfo, wpc, timeout, deadline, doneAt, fetches, task,
                 ferr, ticks, lastTick, late, wret, onceVars>>

\* The clock of the bounded specifications: it stops at MaxTime.
AdvanceTime ==
  /\ now < MaxTime
  /\ PassTime

\* ------------------------------------------------------- Client.GetTask
\* GetTask wraps the error of doRequest and otherwise hands out the decoded
\* task; k numbers the fetch the snapshot comes from.
GetTask(e, status, k) ==
  IF e # Nil THEN [task |-> NoTask, err |-> GetTaskError(e)]
  ELSE [task |-> Snapshot(status, k), err |-> Nil]

\* ----------------------------------------- Client.WaitForTaskCompletion
\* time.Now().After(deadline)
\* Variant: the deadline itself already counts as passed.
After_OrEqual(t, d) == t >= d

After(t, d) == t > d

\* task.TaskStatus == TaskStatusCompleted || ... OutputReceived || ... Failed
\* Variant: FAILED is forgotten.
IsTerminal_NoFailed(status) ==
  \/ status = TaskStatusCompleted
  \/ status = TaskStatusOutputReceived

\* Variant: IN_PROGRESS ends the wait too.
IsTerminal_InProgress(status) ==
  \/ status = TaskStatusCompleted
  \/ status = TaskStatusOutputReceived
  \/ status = TaskStatusFailed
  \/ status = TaskStatusInProgress

IsTerminal(status) ==
  \/ status = TaskStatusCompleted
  \/ status = TaskStatusOutputReceived
  \/ status = TaskStatusFailed

\* What the tick handler decides once GetTask has returned r = [task, err]:
\* return a value to the caller, or go back to the select.
\* Variant: a failed fetch is tried again at the next tick.
afterFetch_RetryOnError(r) ==
  IF r.err # Nil THEN [return |-> FALSE, value |-> [task |-> NoTask, err |-> Nil]]
  ELSE IF IsTerminal(r.task.TaskStatus)
    THEN [return |-> TRUE, value |-> [task |-> r.task, err |-> Nil]]
  ELSE [return |-> FALSE, value |-> [task |-> NoTask, err |-> Nil]]

\* Variant: only a completed task ends the wait.
afterFetch_CompletedOnly(r) ==
  IF r.err # Nil THEN [return |-> TRUE, value |-> [task |-> NoTask, err |-> r.err]]
  ELSE IF r.task.TaskStatus = TaskStatusCompleted
    THEN [return |-> TRUE, value |-> [task |-> r.task, err |-> Nil]]
  ELSE [return |-> FALSE, value |-> [task |-> NoTask, err |-> Nil]]

afterFetch(r) ==
  IF r.err # Nil THEN [return |-> TRUE, value |-> [task |-> NoTask, err |-> r.err]]
  ELSE IF IsTerminal(r.task.TaskStatus)
    THEN [return |-> TRUE, value |-> [task |-> r.task, err |-> Nil]]
  ELSE [return |-> FALSE, value |-> [task |-> NoTask, err |-> Nil]]

\* The cases of the poll select that can be taken at once.
pollSelect(ctxDone, tickPending) ==
  (IF ctxDone THEN {"ctx"} ELSE {}) \cup (IF tickPending THEN {"tick"} ELSE {})

\* A caller invokes WaitForTaskCompletion: the deadline is computed and the
\* ticker started.
CallWait ==
  /\ op = "none"
  /\ op' = "wait"
  /\ now' = 0
  /\ \E c \in {"nil", "Canceled", "DeadlineExceeded"} :
       /\ ctxErr' = c
       /\ cancelInfo' = IF c = "nil" THEN NoCancel
                        ELSE [where |-> "before", at |-> 0, attempts |-> 0]
  /\ \E t \in (-MaxNegTimeout)..MaxTimeout :
       /\ timeout' = t
       /\ deadline' = now' + t
  /\ nextTick' = now' + TickInterval
  /\ tickBuf' = FALSE /\ tickAt' = 0 /\ wwake' = "none"
  /\ doneAt' \in 0..MaxDone
  /\ fetches' = 0 /\ task' = NoTask /\ ferr' = Nil /\ ticks' = 0 /\ lastTick' = 0 /\ late' = FALSE
  /\ wret' = [task |-> NoTask, err |-> Nil]
  /\ wpc' = "select"
  /\ UNCHANGED <<clientVars, reqVars, onceVars>>

ReturnFromWait(r) ==
  /\ wpc' = "ret"
  /\ wret' = r
  /\ UNCHANGED <<fetches, task, ferr, ticks, lastTick, late, reqVars>>

\* case <-ticker.C: the deadline check and the call of GetTask.
\* Variant: a tick fetches without looking at the deadline.
HandleTick_NoDeadlineCheck ==
  /\ ticks' = ticks + 1
  /\ lastTick' = now
  /\ late' = (late \/ now > tickAt)
  /\ wpc' = "fetch"
  /\ fetches' = fetches + 1
  /\ EnterDoRequest(TRUE, TRUE)
  /\ UNCHANGED <<task, ferr, wret>>

HandleTick ==
  /\ ticks' = ticks + 1
  /\ lastTick' = now
  /\ late' = (late \/ now > tickAt)
  /\ IF After(now, deadline)
       THEN /\ wpc' = "ret"
            /\ wret' = [task |-> NoTask, err |-> TimeoutError]
            /\ UNCHANGED <<fetches, task, ferr, reqVars>>
       ELSE /\ wpc' = "fetch"
            /\ fetches' = fetches + 1
            /\ EnterDoRequest(TRUE, TRUE)
            /\ UNCHANGED <<task, ferr, wret>>

\* The select at the head of the poll loop.
PollerSelect ==
  /\ wpc = "select"
  /\ LET ready == pollSelect(ctxErr # "nil", tickBuf)
     IN IF ready = {}
          THEN /\ wpc' = "parked"
               /\ wwake' = "none"
               /\ UNCHANGED <<tickBuf, fetches, task, ferr, ticks, lastTick, late,
                              wret, reqVars>>
          ELSE \E c \in ready :
                 IF c = "ctx"
                   THEN /\ ReturnFromWait([task |-> NoTask, err |-> CtxError(ctxErr)])
                        /\ UNCHANGED <<tickBuf, wwake>>
                   ELSE /\ tickBuf' = FALSE
                        /\ HandleTick
                        /\ UNCHANGED wwake
  /\ UNCHANGED <<clientVars, ctxErr, now, op, cancelInfo, timeout, deadline,
                 nextTick, tickAt, doneAt, onceVars>>

\* The poller parked in the select runs again.
PollerWake ==
  /\ wpc = "parked"
  /\ wwake # "none"
  /\ wwake' = "none"
  /\ IF wwake = "ctx"
       THEN ReturnFromWait([task |-> NoTask, err |-> CtxError(ctxErr)])
       ELSE HandleTick
  /\ UNCHANGED <<clientVars, ctxErr, now, op, cancelInfo, timeout, deadline,
                 nextTick, tickBuf, tickAt, doneAt, onceVars>>

\* GetTask returns to the poller: a fetch error ends the wait, a terminal
\* status ends the wait, anything else goes back to the select.
PollerFetchReturn ==
  /\ wpc = "fetch"
  /\ pc = "ret"
  /\ LET r == GetTask(dret, result, fetches)
         d == afterFetch(r)
     IN /\ task' = r.task
        /\ ferr' = r.err
        /\ IF d.return
             THEN wpc' = "ret" /\ wret' = d.value
             ELSE wpc' = "select" /\ UNCHANGED wret
  /\ pc' = "idle" /\ attempt' = 0 /\ lastErr' = Nil /\ err' = Nil /\ errCtx' = "nil"
  /\ timerAt' = 0 /\ wake' = "none" /\ sentAt' = 0 /\ sentCtx' = "nil" /\ plan' = NoPlan
  /\ attempts' = 0 /\ result' = TaskStatusZero /\ dret' = Nil
  /\ requireAuth' = FALSE /\ sentAuth' = NoHeader /\ auth' = NoToken
  /\ startPolicy' = NoPolicy /\ selectAt' = 0 /\ delays' = 0 /\ waited' = 0
  /\ UNCHANGED <<clientVars, ctxErr, now, op, cancelInfo, timeout, deadline,
                 nextTick, tickBuf, tickAt, wwake, doneAt, fetches, ticks,
                 lastTick, late, onceVars>>

\* WaitForTaskCompletion has returned to its caller (the ticker is stopped).
FinishWait ==
  /\ op = "wait"
  /\ wpc = "ret"
  /\ op' = "none" /\ ctxErr' = "nil" /\ now' = 0
  /\ pc' = "idle" /\ attempt' = 0 /\ lastErr' = Nil /\ err' = Nil /\ errCtx' = "nil"
  /\ timerAt' = 0 /\ wake' = "none" /\ sentAt' = 0 /\ sentCtx' = "nil" /\ plan' = NoPlan
  /\ attempts' = 0 /\ result' = TaskStatusZero /\ dret' = Nil
  /\ requireAuth' = FALSE /\ sentAuth' = NoHeader /\ auth' = NoToken
  /\ startPolicy' = NoPolicy /\ selectAt' = 0 /\ delays' = 0 /\ waited' = 0
  /\ cancelInfo' = NoCancel
  /\ wpc' = "none" /\ timeout' = 0 /\ deadline' = 0 /\ nextTick' = 0
  /\ tickBuf' = FALSE /\ tickAt' = 0 /\ wwake' = "none" /\ doneAt' = 0
  /\ fetches' = 0 /\ task' = NoTask /\ ferr' = Nil /\ ticks' = 0 /\ lastTick' = 0 /\ late' = FALSE
  /\ wret' = [task |-> NoTask, err |-> Nil]
  /\ UNCHANGED <<clientVars, onceVars>>

Next ==
  \/ SetRetryPolicy
  \/ CallRequest
  \/ DoRequestLoop
  \/ DoRequestWake
  \/ AttemptReturn
  \/ FinishRequest
  \/ CallWait
  \/ PollerSelect
  \/ PollerWake
  \/ PollerFetchReturn
  \/ FinishWait
  \/ Cancel
  \/ AdvanceTime

Spec == Init /\ [][Next]_vars

\* ------------------------------------------------------------ SpecLive
\* The steps of a call in progress and the passing of time while it is
\* blocked: the scheduler runs a goroutine that can run, a network attempt
\* in flight returns (within MaxLatency), timers and tickers fire.
CallStep ==
  \/ DoRequestLoop
  \/ DoRequestWake
  \/ AttemptReturn
  \/ PollerSelect
  \/ PollerWake
  \/ PollerFetchReturn
  \/ PassTime

\* Calls under the policy of NewClient on a context that is live, or done
\* from the start; the clock is not stopped (a call that never returned
\* would let it run on for ever).
NextLive ==
  \/ CallRequest
  \/ DoRequestLoop
  \/ DoRequestWake
  \/ AttemptReturn
  \/ FinishRequest
  \/ CallWait
  \/ PollerSelect
  \/ PollerWake
  \/ PollerFetchReturn
  \/ FinishWait
  \/ PassTime

SpecLive == Init /\ [][NextLive]_vars /\ WF_vars(CallStep)

\* ---------------------------------------------------------- Client.Login
\* A caller invokes Login: doRequest with the LoginRequest as body (a struct
\* of two strings, which always marshals), &auth as result target and
\* requireAuth = false.
CallLogin ==
  /\ op = "none"
  /\ op' = "login"
  /\ now' = 0
  /\ \E c \in {"nil", "Canceled", "DeadlineExceeded"} :
       /\ ctxErr' = c
       /\ cancelInfo' = IF c = "nil" THEN NoCancel
                        ELSE [where |-> "before", at |-> 0, attempts |-> 0]
  /\ EnterDoRequest(FALSE, FALSE)
  /\ plan'.pre # "marshal"
  /\ UNCHANGED <<clientVars, waitVars, onceVars>>

\* c.token after doRequest has returned e to Login with auth.AccessToken
\* decoded as accessToken.
\* Variant: the token is stored whether or not the request succeeded.
loginToken_Always(e, accessToken, old) == accessToken

loginToken(e, accessToken, old) == IF e # Nil THEN old ELSE accessToken

\* doRequest has returned to Login, which stores the token on success and
\* returns to its caller.
LoginReturn ==
  /\ op = "login"
  /\ pc = "ret"
  /\ token' = loginToken(dret, auth, token)
  /\ lastLogin' = IF dret = Nil THEN auth ELSE lastLogin
  /\ op' = "none" /\ ctxErr' = "nil" /\ now' = 0
  /\ pc' = "idle" /\ attempt' = 0 /\ lastErr' = Nil /\ err' = Nil /\ errCtx' = "nil"
  /\ timerAt' = 0 /\ wake' = "none" /\ sentAt' = 0 /\ sentCtx' = "nil" /\ plan' = NoPlan
  /\ attempts' = 0 /\ result' = TaskStatusZero /\ dret' = Nil
  /\ requireAuth' = FALSE /\ sentAuth' = NoHeader /\ auth' = NoToken
  /\ startPolicy' = NoPolicy /\ selectAt' = 0 /\ delays' = 0 /\ waited' = 0
  /\ cancelInfo' = NoCancel
  /\ UNCHANGED <<maxRetries, retryDelay, baseURL, race, waitVars, onceVars>>

\* A session: Login, the request methods, WaitForTaskCompletion and
\* SetRetryPolicy, called one after the other on contexts that are live, or
\* done from the start.
NextSession ==
  \/ SetRetryPolicy
  \/ CallRequest
  \/ DoRequestLoop
  \/ DoRequestWake
  \/ AttemptReturn
  \/ FinishRequest
  \/ CallWait
  \/ PollerSelect
  \/ PollerWake
  \/ PollerFetchReturn
  \/ FinishWait
  \/ CallLogin
  \/ LoginReturn
  \/ AdvanceTime

SpecSession == Init /\ [][NextSession]_vars

\* ------------------------------------------- a second goroutine: SpecConc
\* Another goroutine calls SetRetryPolicy on the same Client while a
\* doRequest call is in progress (at most once per call).  Nothing orders its
\* writes of maxRetries and retryDelay with the reads of the loop.
SetRetryPolicyConcurrent ==
  /\ op = "request"
  /\ pc \in {"loop", "parked", "once"}
  /\ startPolicy = <<maxRetries, retryDelay>>
  /\ \E m \in (-MaxNegRetries)..MaxRetriesBound, d \in 0..MaxDelay :
       /\ <<m, d>> # <<maxRetries, retryDelay>>
       /\ maxRetries' = m
       /\ retryDelay' = d
  /\ race' = TRUE
  /\ UNCHANGED <<token, baseURL, lastLogin, ctxErr, now, op, reqVars, cancelInfo,
                 waitVars, onceVars>>

\* Request methods on one goroutine, SetRetryPolicy on it between calls and
\* on another goroutine during them.
NextConc ==
  \/ SetRetryPolicy
  \/ CallRequest
  \/ DoRequestLoop
  \/ DoRequestWake
  \/ AttemptReturn
  \/ FinishRequest
  \/ Cancel
  \/ AdvanceTime
  \/ SetRetryPolicyConcurrent

SpecConc == Init /\ [][NextConc]_vars

\* ----------------------------------------------------------- SpecOnce
\* doRequestOnce on its own: every attempt input over the HTTP status range,
\* with and without a result target.
StatusCodes == MinStatus..MaxStatus

InitOnce ==
  /\ maxRetries = DefaultMaxRetries
  /\ retryDelay = DefaultRetryDelay
  /\ token = NoToken /\ baseURL = "baseURL" /\ lastLogin = NeverLoggedIn
  /\ race = FALSE
  /\ ctxErr = "nil"
  /\ now = 0
  /\ op = "none"
  /\ pc = "idle" /\ attempt = 0 /\ lastErr = Nil /\ err = Nil /\ errCtx = "nil"
  /\ timerAt = 0 /\ wake = "none" /\ sentAt = 0 /\ sentCtx = "nil" /\ plan = NoPlan
  /\ attempts = 0 /\ result = TaskStatusZero /\ dret = Nil
  /\ requireAuth = FALSE /\ sentAuth = NoHeader /\ auth = NoToken
  /\ startPolicy = NoPolicy /\ selectAt = 0 /\ delays = 0 /\ waited = 0
  /\ cancelInfo = NoCancel
  /\ wpc = "none" /\ timeout = 0 /\ deadline = 0 /\ nextTick = 0
  /\ tickBuf = FALSE /\ tickAt = 0 /\ wwake = "none" /\ doneAt = 0
  /\ fetches = 0 /\ task = NoTask /\ ferr = Nil /\ ticks = 0 /\ lastTick = 0 /\ late = FALSE
  /\ wret = [task |-> NoTask, err |-> Nil]
  /\ onceIn \in [in : AttemptInputs(StatusCodes, TaskStatuses), resultNil : BOOLEAN]
  /\ onceErr = Pending /\ onceResult = "unmodified"

RunDoRequestOnce ==
  /\ onceErr = Pending
  /\ onceErr' = doRequestOnce(onceIn.in, onceIn.resultNil)
  /\ onceResult' \in ResultAfter(onceIn.in, onceIn.resultNil)
  /\ UNCHANGED <<clientVars, ctxErr, now, op, reqVars, cancelInfo, waitVars, onceIn>>

NextOnce == RunDoRequestOnce

SpecOnce == InitOnce /\ [][NextOnce]_vars

\* ============================================================ properties
DoRequestReturned == pc = "ret"
WaitReturned == wpc = "ret"

\* C1: under a policy with maxRetries >= 0, when the first N <= maxRetries
\* attempts of a doRequest call fail with a retryable error, attempt N+1
\* succeeds and the context is never cancelled, doRequest has made exactly
\* N+1 attempts when it returns, and it returns nil.
C1_RetryThenSuccess ==
  (/\ DoRequestReturned
   /\ maxRetries >= 0
   /\ plan.pre = "ok" /\ plan.then = "ok" /\ plan.fails <= maxRetries
   /\ ctxErr = "nil")
    => (dret = Nil /\ attempts = plan.fails + 1)

C1_Witness ==
  /\ DoRequestReturned /\ op = "request"
  /\ maxRetries = 3 /\ plan.pre = "ok" /\ plan.then = "ok" /\ plan.fails = 3
  /\ ctxErr = "nil" /\ dret = Nil /\ attempts = 4

\* C2: when an attempt of doRequest fails with an error that is not
\* retryable, doRequest returns that very error, unwrapped, and that attempt
\* was its last: it is attempt N+1 after N retryable failures, and the only
\* attempt when the failure comes first.
C2_NonRetryableReturned ==
  (DoRequestReturned /\ err # Nil /\ err.kind = "APIError" /\ ~err.Retryable)
    => /\ dret = err
       /\ attempts = (IF plan.pre = "ok" THEN plan.fails + 1 ELSE 1)

C2_Witness ==
  /\ DoRequestReturned
  /\ attempts = 2 /\ plan.fails = 1
  /\ err = APIError(404, "response body", FALSE)
  /\ dret = err

\* C3 (as claimed): whenever doRequest returns the exhaustion error, the
\* count it reports is the number of attempts made and the error it wraps
\* is the non-nil error of the last attempt, whatever maxRetries is.
C3_ExhaustionReport ==
  (DoRequestReturned /\ dret.kind = "exhausted")
    => (dret.count = attempts /\ dret.wrapped = err /\ err # Nil)

\* C4: when the context is cancelled while doRequest is parked in the retry
\* delay, doRequest returns ctx.Err() at that very time, before the timer is
\* due, and without having made another attempt.
C4_CancelDuringDelay ==
  (DoRequestReturned /\ cancelInfo.where = "delay")
    => /\ dret = CtxError(ctxErr)
       /\ attempts = cancelInfo.attempts
       /\ now = cancelInfo.at
       /\ now < timerAt

C4_Witness ==
  /\ DoRequestReturned /\ cancelInfo.where = "delay"
  /\ retryDelay = 2 /\ now = timerAt - 1
  /\ dret = CtxError("DeadlineExceeded") /\ attempts = 2

\* C5 (as claimed): whenever an attempt fails while the context is already
\* cancelled, doRequest returns the cancellation, for every kind of failure.
C5_CancelBeatsEveryFailure ==
  (DoRequestReturned /\ err # Nil /\ errCtx # "nil") => dret = CtxError(errCtx)

\* C5 (amended): whenever an attempt fails with a retryable error while the
\* context is already cancelled, doRequest returns the cancellation, also on
\* the last allowed attempt (never the exhaustion error); a failure that is
\* not retryable is returned itself even then.
C5_CancelBeatsRetryableFailure ==
  (DoRequestReturned /\ err # Nil /\ errCtx # "nil")
    => dret = (IF err.Retryable THEN CtxError(errCtx) ELSE err)

C5_Witness ==
  /\ DoRequestReturned /\ err # Nil /\ err.Retryable /\ errCtx = "Canceled"
  /\ maxRetries = 1 /\ attempt = maxRetries
  /\ dret = CtxError("Canceled")

ResponseReceived == onceErr # Pending /\ onceIn.in.marshal /\ onceIn.in.newreq /\ onceIn.in.send

\* C6 (as claimed): for every response with a status outside [200,300) the
\* error of doRequestOnce carries the status and is retryable iff the
\* status is >= 500 or 429.
C6_StatusDecidesRetryable ==
  (ResponseReceived /\ ~(onceIn.in.status >= 200 /\ onceIn.in.status < 300))
    => /\ onceErr.kind = "APIError"
       /\ onceErr.StatusCode = onceIn.in.status
       /\ onceErr.Retryable <=> (onceIn.in.status >= 500 \/ onceIn.in.status = 429)

\* C6 (amended): for every response with a status outside [200,300) whose
\* body was read, the error of doRequestOnce carries the status and is
\* retryable iff the status is >= 500 or 429; when the body cannot be read
\* the error carries the status and is retryable whatever the status.
C6_StatusDecidesRetryableOnceRead ==
  (ResponseReceived /\ ~(onceIn.in.status >= 200 /\ onceIn.in.status < 300))
    => /\ onceErr.kind = "APIError"
       /\ onceErr.StatusCode = onceIn.in.status
       /\ onceErr.Retryable <=>
            (~onceIn.in.read \/ onceIn.in.status >= 500 \/ onceIn.in.status = 429)

C6_Witness ==
  /\ ResponseReceived /\ onceIn.in.read /\ onceIn.in.status = 429
  /\ onceErr = APIError(429, "HTTP status text", TRUE)

\* C7: WaitForTaskCompletion returns a snapshot with a nil error exactly
\* when its latest fetch handed out a snapshot with status COMPLETED, FAILED
\* or OUTPUT_RECEIVED, and then it returns that snapshot; after a fetched
\* snapshot with any other status the wait goes on, and every error outcome
\* comes with a nil snapshot.
LatestFetchTerminal ==
  /\ task # NoTask
  /\ task.fetch = fetches
  /\ task.TaskStatus \in TerminalStatuses

C7_TerminalSnapshotEndsWait ==
  /\ WaitReturned => (wret.err = Nil <=> wret.task # NoTask)
  /\ (WaitReturned /\ wret.err = Nil) => (LatestFetchTerminal /\ wret.task = task)
  /\ (wpc \in {"select", "parked", "ret"} /\ LatestFetchTerminal)
       => (WaitReturned /\ wret = [task |-> task, err |-> Nil])

C7_Witness ==
  /\ WaitReturned /\ fetches = 2
  /\ wret = [task |-> Snapshot(TaskStatusFailed, 2), err |-> Nil]

\* C8 (as claimed): when no fetched snapshot is ever terminal and the context
\* is never cancelled, WaitForTaskCompletion returns the timeout error, more
\* than timeout and at most timeout plus one tick interval after it started.
C8_TimeoutWithinOneTick ==
  (WaitReturned /\ wret.err = TimeoutError /\ ctxErr = "nil")
    => (now > timeout /\ now <= timeout + TickInterval)

\* C8 (amended): when no fetched snapshot is ever terminal, no fetch fails
\* and the context is never cancelled, WaitForTaskCompletion returns only
\* with the timeout error, more than timeout after it started; the elapsed
\* time is at most timeout plus one tick interval when timeout >= 0 and
\* every tick was handled when it was sent (each fetch had returned by the
\* time the next tick was due).
C8_TimeoutWithinOneTickWhenPrompt ==
  /\ (WaitReturned /\ doneAt = 0 /\ ctxErr = "nil" /\ wret.err.kind # "getTask")
       => wret.err = TimeoutError
  /\ (WaitReturned /\ wret.err = TimeoutError /\ ctxErr = "nil")
       => /\ now > timeout
          /\ (timeout >= 0 /\ ~late) => now <= timeout + TickInterval

C8_Witness ==
  /\ WaitReturned /\ wret.err = TimeoutError /\ ctxErr = "nil" /\ doneAt = 0
  /\ timeout = 3 /\ ~late /\ fetches = 1 /\ now = 4

\* C9: when the first k-1 fetches hand out snapshots that are not terminal
\* and the k-th a terminal one, and the k-th tick comes no later than the
\* deadline, WaitForTaskCompletion makes exactly k fetches and returns the
\* k-th snapshot while handling the k-th tick, not the timeout error.
\* (The k-th tick comes at k * TickInterval when no tick is kept waiting.)
KthTickInTime ==
  IF ticks = doneAt THEN lastTick <= deadline
  ELSE ~late /\ doneAt * TickInterval <= timeout

C10_CancelHasPriority ==
  [][(wpc = "select" /\ ctxErr # "nil")
       => (wpc' = "ret" /\ wret' = [task |-> NoTask, err |-> CtxError(ctxErr)])]_vars


\* C11: when GetTask returns an error inside WaitForTaskCompletion, the
\* poller returns at once with exactly that error (what GetTask made of the
\* error of doRequest, not wrapped again) and a nil snapshot: it is never
\* back at its select after a failed fetch, and the failed fetch is the last
\* fetch and belongs to the last tick handled.
C11_FetchErrorEndsWait ==
  (wpc \in {"select", "parked", "ret"} /\ ferr # Nil)
    => /\ WaitReturned
       /\ wret = [task |-> NoTask, err |-> ferr]
       /\ ferr.kind = "getTask"
       /\ ferr.wrapped # Nil
       /\ ticks = fetches

C11_Witness ==
  /\ WaitReturned /\ fetches = 2 /\ ticks = 2
  /\ ferr = GetTaskError(ExhaustedError(2, APIError(0, "request failed", TRUE)))
  /\ wret = [task |-> NoTask, err |-> ferr]


\* The latest attempt of the call in progress got as far as building its
\* request (the Authorization header is set on the built request).
RequestBuilt == op # "none" /\ attempts > 0 /\ plan.pre = "ok"

\* C12 as stated: once a Login has succeeded, every attempt with requireAuth
\* carries the header with the token of the most recent successful Login, and
\* no attempt without requireAuth carries a header.
C12_TokenAttached ==
  /\ (RequestBuilt /\ requireAuth /\ lastLogin # NeverLoggedIn)
       => sentAuth = lastLogin
  /\ (attempts > 0 /\ ~requireAuth) => sentAuth = NoHeader

\* C12 amended: once a Login has succeeded, every attempt with requireAuth
\* carries the header with the token of the most recent successful Login when
\* that token is not empty and carries no header when it is empty; no attempt
\* without requireAuth carries a header.
C12_NonEmptyTokenAttached ==
  /\ (RequestBuilt /\ requireAuth /\ lastLogin # NeverLoggedIn)
       => sentAuth = IF lastLogin # NoToken THEN lastLogin ELSE NoHeader
  /\ (attempts > 0 /\ ~requireAuth) => sentAuth = NoHeader

C12_Witness ==
  /\ op = "wait" /\ fetches = 2 /\ RequestBuilt /\ requireAuth
  /\ lastLogin = "t2" /\ sentAuth = "t2"


\* C13: the client is safe for concurrent use: in no interleaving is a
\* Client field written by one goroutine while another goroutine's call
\* reads it without synchronisation.
C13_NoDataRace == ~race


\* The four outcomes of doRequest: nil, an APIError that is not retryable,
\* the error of the (done) context, the exhaustion error.
DoRequestOutcome(e) ==
  \/ e = Nil
  \/ e.kind = "APIError" /\ ~e.Retryable
  \/ e.kind = "ctx" /\ e.err = ctxErr /\ ctxErr # "nil"
  \/ e.kind = "exhausted"

\* C14: every return of doRequest is nil, a non-retryable APIError, the
\* context's error or the exhaustion error, so a retryable APIError is never
\* returned bare; WaitForTaskCompletion returns a snapshot, one of these
\* failures of a fetch (as GetTask reports it), the context's error, or the
\* timeout error.
C14_Outcomes ==
  /\ DoRequestReturned => DoRequestOutcome(dret)
  /\ WaitReturned =>
       \/ wret.err = Nil /\ wret.task # NoTask
       \/ wret.task = NoTask /\ wret.err = TimeoutError
       \/ wret.task = NoTask /\ wret.err = CtxError(ctxErr) /\ ctxErr # "nil"
       \/ /\ wret.task = NoTask /\ wret.err.kind = "getTask"
          /\ wret.err.wrapped # Nil /\ DoRequestOutcome(wret.err.wrapped)

C14_Witness ==
  /\ op = "wait" /\ wpc = "fetch" /\ DoRequestReturned
  /\ ctxErr = "Canceled" /\ err = APIError(500, "response body", TRUE)
  /\ dret = CtxError("Canceled")


CallInProgress == op \in {"request", "wait"}
CallReturned ==
  \/ op = "request" /\ DoRequestReturned
  \/ op = "wait" /\ WaitReturned

\* C15: under fair progress of the caller, of timers and of each network
\* attempt, every call terminates: a request method in progress returns,
\* its doRequest having made at most maxRetries + 1 attempts, and a
\* WaitForTaskCompletion in progress returns (with a terminal snapshot, the
\* timeout error, the context's error or a fetch error), which takes every
\* doRequest of its fetches to return.
C15_CallsTerminate ==
  /\ [](attempts <= Max(maxRetries + 1, 0))
  /\ CallInProgress ~> CallReturned
  /\ [](WaitReturned =>
          \/ wret.err = Nil /\ IsTerminal(wret.task.TaskStatus)
          \/ wret.err.kind \in {"timeout", "ctx", "getTask"})

C15_Witness ==
  /\ WaitReturned /\ doneAt = 0 /\ ctxErr = "nil" /\ fetches = 2
  /\ timeout = MaxTimeout /\ wret.err = TimeoutError


\* C16: within one doRequest call the number of attempts never exceeds
\* maxRetries + 1, an attempt is in flight only as the latest one started,
\* no delay precedes the first attempt and exactly one delay of retryDelay
\* has been waited out before every later attempt: a call that has made
\* k >= 1 attempts has waited out k - 1 delays, retryDelay each.
C16_AttemptsAndDelays ==
  /\ attempts <= Max(maxRetries + 1, 0)
  /\ attempts = 0 => delays = 0
  /\ attempts >= 1 => delays = attempts - 1
  /\ waited = delays * Max(retryDelay, 0)
  /\ pc = "once" => attempts = attempt + 1 /\ sentAt <= now
  /\ (pc = "once" /\ attempts > 1) => sentAt = timerAt /\ sentAt = selectAt + Max(retryDelay, 0)

C16_Witness ==
  /\ op = "request" /\ DoRequestReturned /\ ctxErr = "nil"
  /\ maxRetries = 1 /\ retryDelay = 1
  /\ attempts = 2 /\ delays = 1 /\ waited = 1 /\ now = 3


\* Where an attempt failed, read off its input alone.
Origin(in, resultNil) ==
  IF ~in.marshal THEN "marshal"
  ELSE IF ~in.newreq THEN "newreq"
  ELSE IF ~in.send THEN "transport"
  ELSE IF ~in.read THEN "read"
  ELSE IF ~IsSuccessStatus(in.status) THEN "status"
  ELSE IF ~resultNil /\ in.body = "garbage" THEN "decode"
  ELSE "none"

\* C17: doRequestOnce classifies a failure by where it occurred: marshalling
\* and request construction give status 0, not retryable; the transport
\* gives status 0, retryable; reading the body gives the response status,
\* retryable; decoding a 2xx body gives the response status, not retryable.
\* The status is 0 exactly when no response (hence no status) was obtained.
C17_ClassifiedByOrigin ==
  onceErr # Pending =>
    LET in == onceIn.in
        o == Origin(in, onceIn.resultNil)
    IN /\ (o = "none") <=> (onceErr = Nil)
       /\ o \in {"marshal", "newreq"} =>
            onceErr.kind = "APIError" /\ onceErr.StatusCode = 0 /\ ~onceErr.Retryable
       /\ o = "transport" =>
            onceErr.kind = "APIError" /\ onceErr.StatusCode = 0 /\ onceErr.Retryable
       /\ o = "read" =>
            /\ onceErr.kind = "APIError" /\ onceErr.StatusCode = in.status
            /\ onceErr.Retryable
       /\ o = "decode" =>
            /\ onceErr.kind = "APIError" /\ onceErr.StatusCode = in.status
            /\ ~onceErr.Retryable
       /\ onceErr # Nil => ((onceErr.StatusCode = 0) <=> ~in.send)

C17_Witness ==
  /\ onceIn = [in |-> ReadFailure(404), resultNil |-> FALSE]
  /\ onceErr = APIError(404, "failed to read response", TRUE)

\* C18: for a response with a 2xx status whose body was read, doRequestOnce
\* decodes the body into the result target exactly when a target is supplied
\* and the body is not empty, and returns nil if it decodes; with an empty
\* body or no target it returns nil and leaves the target unmodified; for a
\* non-2xx response, and for any attempt that fails before the body is read,
\* the target is never written.
C18_DecodeOnlyNonEmpty2xx ==
  onceErr # Pending =>
    LET in == onceIn.in
        got == in.marshal /\ in.newreq /\ in.send /\ in.read
    IN /\ (got /\ IsSuccessStatus(in.status) /\ ~onceIn.resultNil /\ in.body = "json")
            => onceErr = Nil /\ onceResult = "decoded"
       /\ (got /\ IsSuccessStatus(in.status) /\ (onceIn.resultNil \/ in.body = "empty"))
            => onceErr = Nil /\ onceResult = "unmodified"
       /\ onceResult # "unmodified"
            => got /\ IsSuccessStatus(in.status) /\ ~onceIn.resultNil /\ in.body # "empty"
       /\ (~got \/ ~IsSuccessStatus(in.status)) => onceResult = "unmodified"

C18_Witness ==
  /\ onceIn = [in |-> Response(204, "empty", TaskStatusZero), resultNil |-> FALSE]
  /\ onceErr = Nil /\ onceResult = "unmodified"


\* C19: the retry configuration is not reloaded during a call: whatever
\* SetRetryPolicy does while a doRequest call is in progress, the number of
\* attempts allowed, the delay before each retry and the attempt count in
\* the exhaustion error are those of the policy in force when the call
\* started.
C19_PolicyFixedAtStart ==
  op = "request" =>
    /\ attempts <= Max(startPolicy[1] + 1, 0)
    /\ (DoRequestReturned /\ dret.kind = "exhausted") =>
         /\ dret.count = startPolicy[1] + 1
         /\ attempts = Max(startPolicy[1] + 1, 0)
    /\ (pc = "once" /\ attempts > 1) => sentAt = selectAt + Max(startPolicy[2], 0)



\* C20: the session changes only through its designated operations: the
\* token changes only in the step in which a Login whose doRequest returned
\* nil returns, and becomes the decoded access token; a Login whose doRequest
\* failed leaves it as it was; no step of a request method, of GetTask or of
\* WaitForTaskCompletion changes token, maxRetries, retryDelay or baseURL,
\* no step of Login changes maxRetries, retryDelay or baseURL, and baseURL
\* never changes.
C20_SessionFrame ==
  [][/\ token' # token =>
          op = "login" /\ DoRequestReturned /\ dret = Nil /\ token' = auth
     /\ (op = "login" /\ op' = "none") =>
          token' = IF dret = Nil THEN auth ELSE token
     /\ (op \in {"request", "wait"} \/ op' \in {"request", "wait"}) =>
          UNCHANGED <<token, maxRetries, retryDelay, baseURL>>
     /\ (op = "login" \/ op' = "login") =>
          UNCHANGED <<maxRetries, retryDelay, baseURL>>
     /\ baseURL' = baseURL]_vars

C20_Witness ==
  /\ token = "t2" /\ lastLogin = "t2"
  /\ op = "login" /\ DoRequestReturned /\ dret.kind = "exhausted"


\* The fetch of the latest tick is over and was inspected: the poller holds
\* the snapshot of fetch number `fetches`, and has returned it if it is
\* terminal, or the error of that fetch, which it has returned.
LatestFetchInspected ==
  \/ fetches = 0 /\ task = NoTask /\ ferr = Nil
  \/ /\ fetches > 0 /\ ferr = Nil
     /\ task.kind = "task" /\ task.fetch = fetches
     /\ (task.TaskStatus \in TerminalStatuses) <=>
          (WaitReturned /\ wret = [task |-> task, err |-> Nil])
  \/ /\ fetches > 0 /\ ferr # Nil /\ task = NoTask
     /\ WaitReturned /\ wret = [task |-> NoTask, err |-> ferr]

\* C21 as stated: every handled tick performs exactly one fetch, so that
\* the poller, when it returns, has issued as many fetches as it has handled
\* ticks; fetches never overlap.
C21_OneFetchPerTick ==
  /\ WaitReturned => fetches = ticks
  /\ wpc = "fetch" => pc # "idle" /\ fetches = ticks
  /\ (op = "wait" /\ wpc # "fetch") => pc = "idle"

\* C21 amended: every handled tick that finds the deadline not passed
\* performs exactly one fetch, whose outcome is inspected before the next
\* tick is handled, and the tick that finds the deadline passed performs
\* none: a poller that returns the timeout error has issued one fetch fewer
\* than it has handled ticks, a poller that returns anything else, or is
\* waiting for a tick, as many; a fetch is in progress only as the fetch of
\* the latest tick, and no doRequest runs outside it.
C21_OneFetchPerTickInTime ==
  /\ (WaitReturned /\ wret.err = TimeoutError)
       => fetches = ticks - 1 /\ After(lastTick, deadline)
  /\ (WaitReturned /\ wret.err # TimeoutError) => fetches = ticks
  /\ wpc \in {"select", "parked"} => fetches = ticks
  /\ wpc \in {"select", "parked", "ret"} => LatestFetchInspected
  /\ wpc = "fetch" =>
       pc # "idle" /\ fetches = ticks /\ ~After(lastTick, deadline)
  /\ (op = "wait" /\ wpc # "fetch") => pc = "idle"

C21_Witness ==
  /\ WaitReturned /\ wret.err = TimeoutError /\ ctxErr = "nil"
  /\ ticks = 3 /\ fetches = 2 /\ task.kind = "task" /\ task.fetch = 2


\* No fetch before the first tick: the first tick is handled one tick
\* interval after the call started, a fetch has been issued only from then
\* on, and a task is returned only from then on.
NoFetchBeforeFirstTick ==
  op = "wait" =>
    /\ ticks = 0 => fetches = 0 /\ now <= TickInterval
    /\ ticks = 1 => lastTick = TickInterval
    /\ ticks >= 1 => now >= TickInterval
    /\ (WaitReturned /\ wret.task # NoTask) =>
         fetches >= 1 /\ now >= TickInterval

\* C22 as stated: no fetch before the first tick, and a call whose timeout
\* is shorter than the tick interval returns the timeout error at the first
\* tick with zero fetches, whatever the status of the task.
C22_FirstTickFirst ==
  /\ NoFetchBeforeFirstTick
  /\ (op = "wait" /\ timeout < TickInterval) =>
       /\ fetches = 0
       /\ WaitReturned =>
            wret = [task |-> NoTask, err |-> TimeoutError]
              /\ ticks = 1 /\ now = TickInterval

\* C22 amended: no fetch before the first tick, and a call whose timeout is
\* shorter than the tick interval never fetches, whatever the status of the
\* task: it returns the timeout error at the first tick, unless its context
\* is done by then, in which case it may return the context's error, at the
\* first tick or before it, instead.
C22_FirstTickFirstUnlessCancelled ==
  /\ NoFetchBeforeFirstTick
  /\ (op = "wait" /\ timeout < TickInterval) =>
       /\ fetches = 0
       /\ WaitReturned =>
            \/ wret = [task |-> NoTask, err |-> TimeoutError]
                 /\ ticks = 1 /\ now = TickInterval
            \/ wret = [task |-> NoTask, err |-> CtxError(ctxErr)]
                 /\ ctxErr # "nil" /\ ticks = 0 /\ now <= TickInterval

\* The task is terminal from the first fetch on (doneAt = 1), and no fetch
\* is made.
C22_Witness ==
  /\ WaitReturned /\ timeout = 0 /\ doneAt = 1 /\ ctxErr = "nil"
  /\ wret.err = TimeoutError /\ fetches = 0 /\ now = TickInterval

====
